---- MODULE Spec2Model ----
(***************************************************************************)
(* Model of the mTutor student engagement dashboard (src/app.py): the      *)
(* synthetic data generator load_dummy_data behind st.cache_data, and the  *)
(* Streamlit script that filters the table and computes KPIs and charts.   *)
(*                                                                         *)
(* Floating values are fixed-point numbers in units of 1/Res: a draw of    *)
(* rng.random() is k/Res for k in 0..Res-1.  Means and medians are exact   *)
(* fractions [num, den]; 0/0 is NaN, as in numpy/pandas.                   *)
(***************************************************************************)
EXTENDS Integers, Sequences, FiniteSets

\* ------------------------------------------------------------ bounds
MaxDays == 2
MaxCourses == 2
MaxToday == 1

\* The values of `students` a process may be started with: below, at and
\* above the point where students // 3 exceeds the lower sampling bound.
StudentChoices == {3, 32, 33, 36, 40}

\* The bit generator is a fixed but unknown function of the seed: the model
\* covers a family of them, told apart by the increment of the recurrence.
Streams == {13849, 7, 4321}

\* ------------------------------------------------------------ numbers
Res == 21
LcgMod == 65536
LcgMult == 25173

VARIABLES
    days, courses, students,   \* arguments of load_dummy_data
    stream,                    \* which bit generator default_rng stands for
    observed,                  \* pandas' default for groupby(observed=...):
                               \* FALSE before pandas 3.0, TRUE from 3.0 on
    today,                     \* dt.date.today(), as a day number
    cache,                     \* st.cache_data: set of [key, value]
    status,                    \* "idle", "done" or "exception" (last script run)
    data,                      \* the frame the script bound to `data`
    from_date, to_date, selected_courses,
    warning,                   \* st.sidebar.error was shown
    filtered,                  \* the frame the script bound to `filtered`
    dau, median_session, completion_rate, mean_quiz,
    active_daily, heat,
    gens                       \* history: the last two executions of the generator

vars == <<days, courses, students, stream, observed, today, cache, status, data,
          from_date, to_date, selected_courses, warning, filtered,
          dau, median_session, completion_rate, mean_quiz, active_daily, heat, gens>>

\* ------------------------------------------------------------ helpers
NaN == [num |-> 0, den |-> 0]

\* ------------------------------------------------------------ random generator
\* variant: the generator seeded from the clock
SeedFromClock == 42 + today

\* np.random.default_rng(42)
Seed == 42

\* one step of the bit generator
NextState(s) == (LcgMult * s + stream) % LcgMod

\* a state scaled to 0..n-1
Bounded(s, n) == (s * n) \div LcgMod

\* rng.random(): k with the value k/Res
RandomK(s) == Bounded(s, Res)

\* rng.uniform(lo, hi) = lo + (hi - lo) * random(), in units of 1/Res
Uniform(lo, hi, k) == lo * Res + (hi - lo) * k

\* rng.random() < 0.05
Below5Percent(k) == 100 * k < 5 * Res

\* variant: a range that must hold two values
IntegersOkStrict(low, high) == low + 1 < high

\* rng.integers(low, high): fails when the range is empty
IntegersOk(low, high) == low < high

Integers_(low, high, s) == low + Bounded(s, high - low)

\* removing position j from a sequence
RemoveAt(seq, j) == [i \in 1..(Len(seq) - 1) |-> IF i < j THEN seq[i] ELSE seq[i + 1]]

\* variant: sampling with replacement (the pool is never reduced)
RECURSIVE ChoiceWithReplacement(_, _, _)
ChoiceWithReplacement(pool, k, s) ==
    IF k = 0 THEN [ids |-> <<>>, rng |-> s]
    ELSE LET s1 == NextState(s)
             j == 1 + Bounded(s1, Len(pool))
             rest == ChoiceWithReplacement(pool, k - 1, s1)
         IN [ids |-> <<pool[j]>> \o rest.ids, rng |-> rest.rng]

\* rng.choice(np.arange(students), size=k, replace=False): k successive picks
\* from the pool of ids not yet picked
RECURSIVE ChoiceFrom(_, _, _)
ChoiceFrom(pool, k, s) ==
    IF k = 0 THEN [ids |-> <<>>, rng |-> s]
    ELSE LET s1 == NextState(s)
             j == 1 + Bounded(s1, Len(pool))
             rest == ChoiceFrom(RemoveAt(pool, j), k - 1, s1)
         IN [ids |-> <<pool[j]>> \o rest.ids, rng |-> rest.rng]

Choice(n, k, s) == ChoiceFrom([i \in 1..n |-> i - 1], k, s)

\* ------------------------------------------------------------ generator
\* f"Course-{i + 1}"
CourseLabel(i) == <<"Course-", i + 1>>

CourseList(n) == [i \in 1..n |-> CourseLabel(i - 1)]

\* variant: the range starts one day early
DateRangeEarly(now, n) == [i \in 1..n |-> now - n + (i - 1)]

\* pd.date_range(start=today - (days - 1), periods=days, freq="D")
DateRange(now, n) == [i \in 1..n |-> now - (n - 1) + (i - 1)]

\* the innermost loop: one record per sampled id, three draws each
RECURSIVE GenRecords(_, _, _, _)
GenRecords(d, c, ids, s) ==
    IF ids = <<>> THEN [records |-> <<>>, rng |-> s]
    ELSE LET s1 == NextState(s)
             s2 == NextState(s1)
             s3 == NextState(s2)
             rec == [date |-> d, course |-> c, student_id |-> Head(ids),
                     session_minutes |-> Uniform(3, 45, RandomK(s1)),
                     quiz_score |-> Uniform(40, 100, RandomK(s2)),
                     completed |-> Below5Percent(RandomK(s3))]
             rest == GenRecords(d, c, Tail(ids), s3)
         IN [records |-> <<rec>> \o rest.records, rng |-> rest.rng]

\* the two outer loops, dates outside and courses inside, as one walk over
\* the pairs p = 0 .. nd*nc-1
RECURSIVE GenPairs(_, _, _, _, _, _)
GenPairs(p, now, nd, nc, ns, s) ==
    IF p = nd * nc THEN <<>>
    ELSE LET d == DateRange(now, nd)[(p \div nc) + 1]
             c == CourseList(nc)[(p % nc) + 1]
             s1 == NextState(s)
             active == Integers_(10, ns \div 3, s1)
             ch == Choice(ns, active, s1)
             recs == GenRecords(d, c, ch.ids, ch.rng)
         IN recs.records \o GenPairs(p + 1, now, nd, nc, ns, recs.rng)

\* load_dummy_data(days, courses, students) run on day `now`
Generate(now, nd, nc, ns) ==
    IF IntegersOk(10, ns \div 3)
    THEN [ok |-> TRUE, table |-> GenPairs(0, now, nd, nc, ns, Seed)]
    ELSE [ok |-> FALSE, table |-> <<>>]

\* ------------------------------------------------------------ frames
BaseCols == {"date", "course", "student_id", "session_minutes", "quiz_score", "completed"}

\* a DataFrame: its rows, its column names, and the session_bucket column
\* (one value per row once the column exists)
NewFrame(rows) == [rows |-> rows, cols |-> BaseCols, bucket |-> <<>>]

EmptyFrame == NewFrame(<<>>)

\* variant: the first TRUE position is lost
RECURSIVE KeptAfterFirst(_, _)
KeptAfterFirst(mask, i) ==
    IF i > Len(mask) THEN <<>>
    ELSE IF mask[i] THEN [k \in 1..Cardinality({j \in (i + 1)..Len(mask) : mask[j]}) |->
                            CHOOSE j \in (i + 1)..Len(mask) :
                               mask[j] /\ Cardinality({l \in (i + 1)..j : mask[l]}) = k]
    ELSE KeptAfterFirst(mask, i + 1)

\* the positions of a boolean mask that are TRUE, in ascending order
RECURSIVE Kept(_, _)
Kept(mask, i) ==
    IF i > Len(mask) THEN <<>>
    ELSE (IF mask[i] THEN <<i>> ELSE <<>>) \o Kept(mask, i + 1)

\* df[mask] as a value: the rows where the mask is TRUE, in order
Take(frame, mask) ==
    LET idx == Kept(mask, 1)
    IN [rows |-> [k \in 1..Len(idx) |-> frame.rows[idx[k]]],
        cols |-> frame.cols,
        bucket |-> IF frame.bucket = <<>> THEN <<>>
                   ELSE [k \in 1..Len(idx) |-> frame.bucket[idx[k]]]]

\* variant: the indexed frame is filtered in place and returned itself
GetItemInPlace(heap, ref, mask) ==
    [heap |-> [heap EXCEPT ![ref] = Take(heap[ref], mask)], ref |-> ref]

\* Objects live in a heap (a sequence of frames); names hold references.
\* df[mask] allocates a new frame and leaves the indexed one alone.
GetItem(heap, ref, mask) ==
    [heap |-> Append(heap, Take(heap[ref], mask)), ref |-> Len(heap) + 1]

\* df["session_bucket"] = values writes into the object df refers to
SetBucket(heap, ref, values) ==
    [heap EXCEPT ![ref] = [@ EXCEPT !.cols = @ \cup {"session_bucket"},
                                    !.bucket = values]]

\* variant: the upper end of the range is exclusive
DateMaskExclusive(frame, from, to) ==
    [i \in 1..Len(frame.rows) |-> frame.rows[i].date >= from /\ frame.rows[i].date < to]

\* variant: an inverted range is put in order before it is applied
DateMaskSwapped(frame, from, to) ==
    [i \in 1..Len(frame.rows) |->
        \/ frame.rows[i].date >= from /\ frame.rows[i].date <= to
        \/ frame.rows[i].date >= to /\ frame.rows[i].date <= from]

\* (data["date"] >= pd.Timestamp(from_date)) & (data["date"] <= pd.Timestamp(to_date))
DateMask(frame, from, to) ==
    [i \in 1..Len(frame.rows) |-> frame.rows[i].date >= from /\ frame.rows[i].date <= to]

\* filtered["course"].isin(selected_courses)
CourseMask(frame, sel) ==
    [i \in 1..Len(frame.rows) |-> frame.rows[i].course \in sel]

\* "Apply filters": the date mask, then the course mask unless nothing is
\* selected.  Returns the heap and the reference bound to `filtered`.
ApplyFilters(heap, ref, from, to, sel) ==
    LET byDate == GetItem(heap, ref, DateMask(heap[ref], from, to))
    IN IF sel # {}
       THEN GetItem(byDate.heap, byDate.ref, CourseMask(byDate.heap[byDate.ref], sel))
       ELSE byDate

\* the filter as a function from table to table
Filter(rows, from, to, sel) ==
    LET r == ApplyFilters(<<NewFrame(rows)>>, 1, from, to, sel)
    IN r.heap[r.ref].rows

\* ------------------------------------------------------------ aggregates
RECURSIVE SumQuiz(_)
SumQuiz(rows) == IF rows = <<>> THEN 0 ELSE Head(rows).quiz_score + SumQuiz(Tail(rows))

\* Series.nunique()
NUnique(rows) == Cardinality({rows[i].student_id : i \in 1..Len(rows)})

\* Series.mean(): sum / count, NaN for an empty series
MeanQuiz(rows) == [num |-> SumQuiz(rows), den |-> Len(rows)]

\* the k-th smallest session_minutes
KthSession(rows, k) ==
    CHOOSE v \in {rows[i].session_minutes : i \in 1..Len(rows)} :
        /\ Cardinality({i \in 1..Len(rows) : rows[i].session_minutes < v}) < k
        /\ Cardinality({i \in 1..Len(rows) : rows[i].session_minutes <= v}) >= k

\* Series.median(): the middle value, or the mean of the two middle values;
\* NaN for an empty series.  Twice the median over 2.
MedianSession(rows) ==
    LET n == Len(rows)
    IN IF n = 0 THEN NaN
       ELSE IF n % 2 = 1 THEN [num |-> 2 * KthSession(rows, (n + 1) \div 2), den |-> 2]
       ELSE [num |-> KthSession(rows, n \div 2) + KthSession(rows, (n \div 2) + 1),
             den |-> 2]

\* filtered["completed"].mean() * 100 if not filtered.empty else 0
CompletionRate(rows) ==
    IF rows # <<>>
    THEN [num |-> 100 * Cardinality({i \in 1..Len(rows) : rows[i].completed}),
          den |-> Len(rows)]
    ELSE [num |-> 0, den |-> 1]

\* groupby("date")["student_id"].nunique().reset_index().sort_values("date")
RECURSIVE DailyFrom(_, _, _)
DailyFrom(rows, d, last) ==
    IF d > last THEN <<>>
    ELSE LET ids == {rows[i].student_id : i \in {j \in 1..Len(rows) : rows[j].date = d}}
         IN (IF \E i \in 1..Len(rows) : rows[i].date = d
             THEN <<[date |-> d, active_users |-> Cardinality(ids)]>>
             ELSE <<>>) \o DailyFrom(rows, d + 1, last)

ActiveDaily(rows) ==
    IF rows = <<>> THEN <<>>
    ELSE LET ds == {rows[i].date : i \in 1..Len(rows)}
             lo == CHOOSE d \in ds : \A e \in ds : d <= e
             hi == CHOOSE d \in ds : \A e \in ds : e <= d
         IN DailyFrom(rows, lo, hi)

\* bins=[0, 5, 10, 20, 30, 60]
Bins == <<0, 5, 10, 20, 30, 60>>

\* the categories of pd.cut, in order: (0, 5], (5, 10], ...
Categories == [i \in 1..(Len(Bins) - 1) |-> <<Bins[i], Bins[i + 1]>>]

\* the category of a value outside every interval (pandas' NaN)
NoBucket == <<-1, -1>>

\* pd.cut of one value: intervals are open on the left, closed on the right
Cut(v) ==
    IF \E i \in 1..Len(Categories) : Categories[i][1] * Res < v /\ v <= Categories[i][2] * Res
    THEN Categories[CHOOSE i \in 1..Len(Categories) :
                        Categories[i][1] * Res < v /\ v <= Categories[i][2] * Res]
    ELSE NoBucket

\* pd.cut(filtered["session_minutes"], bins=...)
CutColumn(frame) == [i \in 1..Len(frame.rows) |-> Cut(frame.rows[i].session_minutes)]

\* the rows of a frame whose session_bucket is b
InBucket(frame, b) ==
    Take(frame, [i \in 1..Len(frame.rows) |-> frame.bucket[i] = b]).rows

\* groupby(["session_bucket"])["quiz_score"].mean().reset_index(): one entry
\* per category; with observed=True only the categories that have rows
RECURSIVE HeatFrom(_, _, _)
HeatFrom(frame, i, obs) ==
    IF i > Len(Categories) THEN <<>>
    ELSE LET rows == InBucket(frame, Categories[i])
         IN (IF obs /\ rows = <<>> THEN <<>>
             ELSE <<[session_bucket |-> Categories[i], quiz_score |-> MeanQuiz(rows)]>>)
            \o HeatFrom(frame, i + 1, obs)

Heat(frame, obs) == HeatFrom(frame, 1, obs)

\* ------------------------------------------------------------ the script
\* the cache key of a call of load_dummy_data
Key == <<days, courses, students>>

Cached == \E e \in cache : e.key = Key

CachedTable == (CHOOSE e \in cache : e.key = Key).value

\* data["date"].min(), data["date"].max()
MinDate(rows) == CHOOSE d \in {rows[i].date : i \in 1..Len(rows)} :
                     \A i \in 1..Len(rows) : d <= rows[i].date

MaxDate(rows) == CHOOSE d \in {rows[i].date : i \in 1..Len(rows)} :
                     \A i \in 1..Len(rows) : rows[i].date <= d

\* sorted(data["course"].unique()), as the set of options of the multiselect
CourseOptions(rows) == {rows[i].course : i \in 1..Len(rows)}

\* the history keeps the last two executions of the generator
Remember(history, g) ==
    IF Len(history) < 2 THEN Append(history, g) ELSE <<history[2], g>>

\* what the script leaves behind when load_dummy_data raised: Streamlit
\* shows the exception and the script stops at `data = load_dummy_data()`
Failed ==
    [status |-> "exception", cache |-> cache, gens |-> gens,
     data |-> EmptyFrame, filtered |-> EmptyFrame,
     from_date |-> 0, to_date |-> 0, selected_courses |-> {}, warning |-> FALSE,
     dau |-> 0, median_session |-> NaN, completion_rate |-> NaN, mean_quiz |-> NaN,
     active_daily |-> <<>>, heat |-> <<>>]

\* One run of the script, top to bottom.  fresh: the session is new, so every
\* widget shows its default; otherwise fromIn, toIn, selIn are the widgets'
\* values.
RunScript(fresh, fromIn, toIn, selIn) ==
    LET gen == Generate(today, days, courses, students)
    IN IF ~Cached /\ ~gen.ok THEN Failed
       ELSE
       LET table == IF Cached THEN CachedTable ELSE gen.table
           heap0 == <<NewFrame(table)>>
           min_date == MinDate(table)
           max_date == MaxDate(table)
           course_options == CourseOptions(table)
           from == IF fresh THEN min_date ELSE fromIn
           to == IF fresh THEN max_date ELSE toIn
           sel == IF fresh THEN course_options ELSE selIn
           f == ApplyFilters(heap0, 1, from, to, sel)
           rows == f.heap[f.ref].rows
           heap1 == SetBucket(f.heap, f.ref, CutColumn(f.heap[f.ref]))
       IN [status |-> "done",
           cache |-> IF Cached THEN cache ELSE cache \cup {[key |-> Key, value |-> table]},
           gens |-> IF Cached THEN gens
                    ELSE Remember(gens, [key |-> Key, day |-> today, table |-> table]),
           from_date |-> from,
           to_date |-> to,
           selected_courses |-> sel,
           warning |-> (from > to),
           dau |-> NUnique(rows),
           median_session |-> MedianSession(rows),
           completion_rate |-> CompletionRate(rows),
           mean_quiz |-> MeanQuiz(rows),
           active_daily |-> ActiveDaily(rows),
           heat |-> Heat(heap1[f.ref], observed),
           data |-> heap1[1],
           filtered |-> heap1[f.ref]]

\* the script run as one step of the session
Script(fresh, fromIn, toIn, selIn) ==
    \E r \in {RunScript(fresh, fromIn, toIn, selIn)} :
       /\ status' = r.status
       /\ cache' = r.cache
       /\ gens' = r.gens
       /\ data' = r.data
       /\ filtered' = r.filtered
       /\ from_date' = r.from_date
       /\ to_date' = r.to_date
       /\ selected_courses' = r.selected_courses
       /\ warning' = r.warning
       /\ dau' = r.dau
       /\ median_session' = r.median_session
       /\ completion_rate' = r.completion_rate
       /\ mean_quiz' = r.mean_quiz
       /\ active_daily' = r.active_daily
       /\ heat' = r.heat

\* ------------------------------------------------------------ actions
Init ==
    /\ days \in 1..MaxDays
    /\ courses \in 1..MaxCourses
    /\ students \in StudentChoices
    /\ stream \in Streams
    /\ observed \in BOOLEAN
    /\ today = 0
    /\ cache = {}
    /\ status = "idle"
    /\ data = EmptyFrame
    /\ filtered = EmptyFrame
    /\ from_date = 0 /\ to_date = 0 /\ selected_courses = {}
    /\ warning = FALSE
    /\ dau = 0 /\ median_session = NaN /\ completion_rate = NaN /\ mean_quiz = NaN
    /\ active_daily = <<>> /\ heat = <<>>
    /\ gens = <<>>

\* a browser opens (or reloads) the page: a new session
Load ==
    /\ Script(TRUE, 0, 0, {})
    /\ UNCHANGED <<days, courses, students, stream, observed, today>>

\* the user picks another "From" date
ChangeFrom ==
    /\ status = "done"
    /\ \E d \in MinDate(data.rows)..MaxDate(data.rows) :
          d # from_date /\ Script(FALSE, d, to_date, selected_courses)
    /\ UNCHANGED <<days, courses, students, stream, observed, today>>

\* the user picks another "To" date
ChangeTo ==
    /\ status = "done"
    /\ \E d \in MinDate(data.rows)..MaxDate(data.rows) :
          d # to_date /\ Script(FALSE, from_date, d, selected_courses)
    /\ UNCHANGED <<days, courses, students, stream, observed, today>>

\* the user changes the selection of courses
ChangeCourses ==
    /\ status = "done"
    /\ \E sel \in SUBSET CourseOptions(data.rows) :
          sel # selected_courses /\ Script(FALSE, from_date, to_date, sel)
    /\ UNCHANGED <<days, courses, students, stream, observed, today>>

\* midnight passes
Tick ==
    /\ today < MaxToday
    /\ today' = today + 1
    /\ UNCHANGED <<days, courses, students, stream, observed, cache, status, data,
                   from_date, to_date, selected_courses, warning, filtered,
                   dau, median_session, completion_rate, mean_quiz, active_daily,
                   heat, gens>>

\* the user clears the cache from the app menu
ClearCache ==
    /\ cache # {}
    /\ cache' = {}
    /\ UNCHANGED <<days, courses, students, stream, observed, today, status, data,
                   from_date, to_date, selected_courses, warning, filtered,
                   dau, median_session, completion_rate, mean_quiz, active_daily,
                   heat, gens>>

\* one session on one day: the page is loaded and the widgets are used
Next == Load \/ ChangeFrom \/ ChangeTo \/ ChangeCourses

Spec == Init /\ [][Next]_vars

\* the life of the cache over the days: pages are loaded, days pass, the
\* cache is cleared
NextCache == Load \/ Tick \/ ClearCache

SpecCache == Init /\ [][NextCache]_vars

\* ------------------------------------------------------------ properties
\* the table the cache was last filled with
Base == gens[Len(gens)].table

\* the rows of a table a filter with the session's criteria has to keep
Wanted(r) ==
    /\ from_date <= r.date /\ r.date <= to_date
    /\ (selected_courses = {} \/ r.course \in selected_courses)

\* two rows that agree in every column but the date
SameButDate(r, q) ==
    /\ r.course = q.course /\ r.student_id = q.student_id
    /\ r.session_minutes = q.session_minutes /\ r.quiz_score = q.quiz_score
    /\ r.completed = q.completed

\* C1 (as stated): any two executions of the generator with the same
\* (days, courses, students) return identical tables, date column included.
C1_SameTable ==
    \A i, j \in 1..Len(gens) :
        gens[i].key = gens[j].key => gens[i].table = gens[j].table

\* C1 (amended): two executions of the generator with the same arguments on
\* the same day return identical tables; on different days the tables have
\* the same rows in the same order except that every date is shifted by the
\* number of days between the two executions; and the table served from the
\* cache is the table of the execution that filled it.
C1_SameTableUpToDay ==
    /\ \A i, j \in 1..Len(gens) :
          gens[i].key = gens[j].key =>
             /\ Len(gens[i].table) = Len(gens[j].table)
             /\ \A k \in 1..Len(gens[i].table) :
                   /\ SameButDate(gens[i].table[k], gens[j].table[k])
                   /\ gens[j].table[k].date - gens[i].table[k].date
                         = gens[j].day - gens[i].day
    /\ Cached => CachedTable = Base
    /\ status = "done" => data.rows = Base

C1_Witness ==
    /\ Len(gens) = 2 /\ gens[1].day # gens[2].day /\ gens[1].key = gens[2].key
    /\ status = "done" /\ Cached

\* C2 (as stated): with days >= 1, courses >= 1 and students >= 3 the
\* generator completes and returns a table.
C2_CompletesFrom3 ==
    (status # "idle" /\ days >= 1 /\ courses >= 1 /\ students >= 3) => status = "done"

\* C2 (amended): with days >= 1, courses >= 1 and students >= 33 the sampling
\* range [10, students // 3) is not empty and the generator completes and
\* returns a table with at least 10 records for every (date, course) pair.
C2_CompletesFrom33 ==
    (status # "idle" /\ days >= 1 /\ courses >= 1 /\ students >= 33) =>
        /\ 10 < students \div 3
        /\ status = "done"
        /\ \A d \in DOMAIN DateRange(gens[Len(gens)].day, days) :
           \A c \in DOMAIN CourseList(courses) :
              Cardinality({k \in 1..Len(Base) :
                             /\ Base[k].date = DateRange(gens[Len(gens)].day, days)[d]
                             /\ Base[k].course = CourseList(courses)[c]}) >= 10

C2_Witness == status = "done" /\ students = 33 /\ Len(Base) >= 10

\* C3: every record of a generated table has 3 <= session_minutes < 45,
\* 40 <= quiz_score < 100, a date among the `days` days ending on the day of
\* the generation, a course among Course-1..Course-N and 0 <= student_id <
\* students.
C3_Bounds ==
    \A g \in 1..Len(gens) :
    \A k \in 1..Len(gens[g].table) :
        LET r == gens[g].table[k]
        IN /\ 3 * Res <= r.session_minutes /\ r.session_minutes < 45 * Res
           /\ 40 * Res <= r.quiz_score /\ r.quiz_score < 100 * Res
           /\ gens[g].day - (gens[g].key[1] - 1) <= r.date /\ r.date <= gens[g].day
           /\ \E n \in 1..gens[g].key[2] : r.course = <<"Course-", n>>
           /\ 0 <= r.student_id /\ r.student_id < gens[g].key[3]

C3_Witness ==
    /\ Len(gens) = 2 /\ gens[2].day > 0
    /\ \E k \in 1..Len(Base) : Base[k].date = gens[2].day
    /\ \E k \in 1..Len(Base) : Base[k].date < gens[2].day

\* C4: no generated table holds two records with the same
\* (date, course, student_id).
C4_NoDuplicates ==
    \A g \in 1..Len(gens) :
    \A k, l \in 1..Len(gens[g].table) :
        LET r == gens[g].table[k]
            q == gens[g].table[l]
        IN (r.date = q.date /\ r.course = q.course /\ r.student_id = q.student_id)
              => k = l

C4_Witness ==
    /\ Len(gens) >= 1
    /\ \E k, l \in 1..Len(Base) :
          /\ k # l /\ Base[k].student_id = Base[l].student_id
          /\ Base[k].date = Base[l].date

\* C5: the filtered table is exactly the rows of the table with
\* from_date <= date <= to_date and (no course selected or course selected),
\* in their original order.
C5_FilterExact ==
    status = "done" => filtered.rows = SelectSeq(Base, Wanted)

C5_Witness ==
    /\ status = "done" /\ selected_courses = {} /\ from_date = to_date
    /\ Len(filtered.rows) > 0 /\ Len(filtered.rows) < Len(data.rows)
    /\ \E k, l \in 1..Len(filtered.rows) : filtered.rows[k].course # filtered.rows[l].course

\* C6: on an empty filtered table active_users is 0, completion_rate_pct is
\* 0, the median session and the mean quiz score are defined (not NaN) and
\* the grouped aggregates are empty.
C6_EmptyIsDefined ==
    (status = "done" /\ filtered.rows = <<>>) =>
        /\ dau = 0
        /\ completion_rate.num = 0 /\ completion_rate.den # 0
        /\ median_session # NaN
        /\ mean_quiz # NaN
        /\ active_daily = <<>>
        /\ heat = <<>>

\* C7: when from_date > to_date the script shows the warning, runs to its
\* end, and the filter and the aggregates run on the inverted range: the
\* filtered table is empty and the aggregates are those of an empty table.
C7_InvertedRange ==
    from_date > to_date =>
        /\ status = "done"
        /\ warning
        /\ filtered.rows = <<>>
        /\ "session_bucket" \in filtered.cols
        /\ dau = 0
        /\ completion_rate = [num |-> 0, den |-> 1]
        /\ active_daily = <<>>

C7_Witness == status = "done" /\ from_date > to_date /\ data.rows # <<>>

\* C8: every filtered row is in exactly one bucket, the one whose interval
\* (lo, hi] holds its session_minutes; the output has one entry per bucket
\* that has rows, with the mean quiz_score of those rows, and no entry for a
\* bucket without rows.
C8_Buckets ==
    status = "done" =>
        /\ \A i \in 1..Len(filtered.rows) :
              /\ Cardinality({c \in 1..Len(Categories) :
                     /\ Categories[c][1] * Res < filtered.rows[i].session_minutes
                     /\ filtered.rows[i].session_minutes <= Categories[c][2] * Res}) = 1
              /\ \E c \in 1..Len(Categories) :
                     /\ filtered.bucket[i] = Categories[c]
                     /\ Categories[c][1] * Res < filtered.rows[i].session_minutes
                     /\ filtered.rows[i].session_minutes <= Categories[c][2] * Res
        /\ \A c \in 1..Len(Categories) :
              LET members == {i \in 1..Len(filtered.rows) : filtered.bucket[i] = Categories[c]}
                  entries == {e \in 1..Len(heat) : heat[e].session_bucket = Categories[c]}
              IN IF members = {} THEN entries = {}
                 ELSE /\ Cardinality(entries) = 1
                      /\ \A e \in entries :
                            /\ heat[e].quiz_score.den = Cardinality(members)
                            /\ heat[e].quiz_score.num =
                                  SumQuiz(SelectSeq(filtered.rows,
                                     LAMBDA r : Cut(r.session_minutes) = Categories[c]))

\* C9: filtering the filtered table again with the same criteria returns it
\* unchanged.
C9_Idempotent ==
    status = "done" =>
        /\ Filter(filtered.rows, from_date, to_date, selected_courses) = filtered.rows
        /\ Filter(Filter(Base, from_date, to_date, selected_courses),
                  from_date, to_date, selected_courses)
              = Filter(Base, from_date, to_date, selected_courses)

C9_Witness ==
    /\ status = "done"
    /\ Len(filtered.rows) > 0 /\ Len(filtered.rows) < Len(data.rows)
    /\ selected_courses # {} /\ selected_courses # CourseOptions(data.rows)

\* C10: the filter and the aggregates leave the base table as it was
\* generated (same rows, same columns, no session_bucket column), the cache
\* keeps the table it was filled with, and the metrics are those of the base
\* table under the criteria of the last interaction.
C10_BaseUntouched ==
    /\ Cached => CachedTable = Base
    /\ status = "done" =>
          /\ data = NewFrame(Base)
          /\ "session_bucket" \notin data.cols
          /\ dau = NUnique(SelectSeq(Base, Wanted))
          /\ median_session = MedianSession(SelectSeq(Base, Wanted))
          /\ completion_rate = CompletionRate(SelectSeq(Base, Wanted))
          /\ mean_quiz = MeanQuiz(SelectSeq(Base, Wanted))
          /\ active_daily = ActiveDaily(SelectSeq(Base, Wanted))

C10_Witness ==
    /\ status = "done" /\ "session_bucket" \in filtered.cols
    /\ Len(filtered.rows) = Len(data.rows) /\ Len(data.rows) > 0
    /\ selected_courses = {}

====
